---- MODULE Spec2Model ----
(***************************************************************************)
(* The SQLite-backed corpus of the TF-IDF demo: the three tables           *)
(* (documents, lemmas, documents_lemmas), Corpus.add_document,             *)
(* Corpus.del_document, the read operations, and the upload loop of the    *)
(* Streamlit application with its session hashmap.                         *)
(*                                                                         *)
(* Python's None is the empty tuple << >> and a set value v is <<v>>, so   *)
(* that an empty map (a function with an empty domain) is not None.        *)
(* A float lemma_tf = count / total is the reduced fraction <<n, d>>; a    *)
(* score tf * log(N / df) is the record [tf, N, df], compared exactly.     *)
(***************************************************************************)
EXTENDS Integers, Sequences, FiniteSets, TLC

\* ------------------------------------------------------------------ bounds
MaxDocId == 2        \* add_document is not called once doc_id would pass this
DigestBits == 3      \* width of the model's digest (64 in xxhash.xxh64)

\* ------------------------------------------------------------------ inputs
Lemmas == {"a", "b"}           \* words the tokenizer keeps (their own lemmas)
Words == Lemmas \cup {"x"}     \* "x": dropped by the regex / the stop list
\* File contents: the empty file, a file without a valid token, and files over
\* one and two lemmas ("a" and "a b" share a fingerprint, "b" has fingerprint 0).
Texts == {<< >>, <<"x">>, <<"a">>, <<"b">>, <<"a", "b">>}
DocIds == 1..MaxDocId

VARIABLES documents, lemmas, documents_lemmas, hashmap, last, maxAssigned, ingested,
          peer, tx, reader

vars == <<documents, lemmas, documents_lemmas, hashmap, last, maxAssigned, ingested,
          peer, tx, reader>>

\* What is in flight beside the session's own script run: the upload loop of a
\* second session, the write transactions, and a read operation between its reads.
concurrent == <<peer, tx, reader>>

\* ------------------------------------------------------------------ helpers
None == << >>
Some(v) == <<v>>
IsNone(o) == Len(o) = 0
Val(o) == o[1]

Max(S) == CHOOSE x \in S : \A y \in S : y <= x

RECURSIVE Gcd(_, _)
Gcd(a, b) == IF b = 0 THEN a ELSE Gcd(b, a % b)

\* count / total as Python computes the float: equal quotients are equal.
Div(n, d) == <<n \div Gcd(n, d), d \div Gcd(n, d)>>

RECURSIVE Pow(_, _)
Pow(b, e) == IF e = 0 THEN 1 ELSE b * Pow(b, e - 1)

Perms(S) == {p \in [1..Cardinality(S) -> S] : \A i, j \in DOMAIN p : i # j => p[i] # p[j]}

\* ------------------------------------------------------------------ nlp.py
\* xxhash.xxh64(text).intdigest(): a DigestBits-wide digest of the text.
WordCode(w) == CASE w = "a" -> 1 [] w = "b" -> 4 [] OTHER -> 3

RECURSIVE WeightedSum(_, _)
WeightedSum(text, i) ==
    IF i > Len(text) THEN 0 ELSE i * WordCode(text[i]) + WeightedSum(text, i + 1)

intdigest(text) == WeightedSum(text, 1) % Pow(2, DigestBits)

\* nlp.xxhash64 = intdigest & (2 ** 63 - 1): the top bit is cleared.
xxhash64_of(text) == intdigest(text) % Pow(2, DigestBits - 1)

\* `return nlp.xxhash64 or None`: a digest of 0 comes back as None.
hash_original_text(text) == IF xxhash64_of(text) = 0 THEN None ELSE Some(xxhash64_of(text))

\* re_russian_word + stop list + mystem: the kept words, in order.
tokenize(text) == SelectSeq(text, LAMBDA w : w \in Lemmas)

\* Counter(tokens) and count / total.
lemmas_count_map_of(tokens) ==
    [l \in {tokens[i] : i \in DOMAIN tokens} |-> Cardinality({i \in DOMAIN tokens : tokens[i] = l})]

lemmas_tf_map_of(tokens) ==
    [l \in {tokens[i] : i \in DOMAIN tokens} |->
        Div(Cardinality({i \in DOMAIN tokens : tokens[i] = l}), Len(tokens))]

\* lzma.compress(text): the container header, then the payload.
compress_original_text(text) == <<"xz">> \o text

\* The context the pipeline has filled when it reaches add_document.
NlpDocContext(text) ==
    [text_input        |-> Some(text),
     xxhash64          |-> Some(xxhash64_of(text)),
     compressed_text   |-> Some(compress_original_text(text)),
     tokens_lemmatized |-> Some(tokenize(text)),
     lemmas_count_map  |-> Some(lemmas_count_map_of(tokenize(text))),
     lemmas_tf_map     |-> Some(lemmas_tf_map_of(tokenize(text)))]

FieldNames == {"text_input", "xxhash64", "compressed_text", "tokens_lemmatized",
               "lemmas_count_map", "lemmas_tf_map"}

is_full(nlp) == \A f \in FieldNames : ~IsNone(nlp[f])

\* ------------------------------------------------------------------ database.py
Restrict(f, S) == [k \in S |-> f[k]]

\* SQLite gives an INTEGER PRIMARY KEY column without the AUTOINCREMENT keyword
\* the largest rowid in the table plus one (SQLAlchemy emits the keyword only
\* under sqlite_autoincrement=True, which the tables do not set).
NextRowid(ids) == IF ids = {} THEN 1 ELSE Max(ids) + 1

Store == [documents |-> documents, lemmas |-> lemmas, documents_lemmas |-> documents_lemmas]
Stored(doc_id) == \E d \in documents : d.doc_id = doc_id

\* INSERT OR IGNORE INTO lemmas, once per lemma, in the set's iteration order.
RECURSIVE UpsertLemmas(_, _, _)
UpsertLemmas(tbl, order, i) ==
    IF i > Len(order) THEN tbl
    ELSE IF \E r \in tbl : r.lemma = order[i]
         THEN UpsertLemmas(tbl, order, i + 1)
         ELSE UpsertLemmas(tbl \cup {[lemma_id |-> NextRowid({r.lemma_id : r \in tbl}),
                                      lemma    |-> order[i]]},
                           order, i + 1)

LemmaId(tbl, lemma) == (CHOOSE r \in tbl : r.lemma = lemma).lemma_id

\* The transaction is committed although the block raised.
RollbackKeepsPartial(before, working) == working

\* `with session.begin()`: an exception leaving the block rolls the
\* transaction back, and the store is what it was before the call.
Rollback(before, working) == before

PrimaryKeyConflict(rows, tbl) ==
    \E r \in rows, q \in tbl : r.doc_id = q.doc_id /\ r.lemma_id = q.lemma_id

\* An empty parameter list is taken for a no-op.
insert_documents_lemmas_error_skip_empty(rows, tbl) ==
    IF PrimaryKeyConflict(rows, tbl) THEN "IntegrityError" ELSE ""

\* session.execute(insert(documents_lemmas), doc_lemma_rows): the error it
\* raises, "" for none. An empty parameter list runs the INSERT once with no
\* values, which fails NOT NULL; (doc_id, lemma_id) is the primary key.
insert_documents_lemmas_error(rows, tbl) ==
    IF rows = {} THEN "IntegrityError"
    ELSE IF PrimaryKeyConflict(rows, tbl) THEN "IntegrityError"
    ELSE ""

\* add_document(nlp): `order` is the iteration order of unique_lemmas, and
\* `fault` the statement (1..4) at which the storage raises, 0 for none.
add_document(db, nlp, order, fault) ==
    IF ~is_full(nlp)
    THEN [status |-> "error", err |-> "ValueError", doc_id |-> 0, db |-> db]
    ELSE
    LET counts   == Val(nlp.lemmas_count_map)
        tfs      == Val(nlp.lemmas_tf_map)
        doc_id   == NextRowid({d.doc_id : d \in db.documents})
        s1       == [db EXCEPT !.documents = @ \cup
                        {[doc_id |-> doc_id, xxhash64 |-> Val(nlp.xxhash64),
                          compressed_text |-> Val(nlp.compressed_text)]}]
        s2       == [s1 EXCEPT !.lemmas = UpsertLemmas(@, order, 1)]
        rows     == {[doc_id |-> doc_id, lemma_id |-> LemmaId(s2.lemmas, l),
                      lemma_count |-> counts[l], lemma_tf |-> tfs[l]] : l \in DOMAIN counts}
        s4       == [s2 EXCEPT !.documents_lemmas = @ \cup rows]
        failed(e, partial) ==
            [status |-> "error", err |-> e, doc_id |-> 0, db |-> Rollback(db, partial)]
    IN  IF fault = 1 THEN failed("OperationalError", db)
        ELSE IF fault = 2 THEN failed("OperationalError", s1)
        ELSE IF fault = 3 THEN failed("OperationalError", s2)
        ELSE IF \E l \in DOMAIN counts : l \notin DOMAIN tfs THEN failed("KeyError", s2)
        ELSE IF fault = 4 THEN failed("OperationalError", s2)
        ELSE IF insert_documents_lemmas_error(rows, db.documents_lemmas) # ""
             THEN failed(insert_documents_lemmas_error(rows, db.documents_lemmas), s2)
        ELSE [status |-> "ok", err |-> "", doc_id |-> doc_id, db |-> s4]

\* DELETE FROM documents WHERE doc_id = ?. The connection never issues
\* PRAGMA foreign_keys=ON, so SQLite does not enforce the foreign keys and
\* ON DELETE CASCADE removes nothing from documents_lemmas.
del_document(db, doc_id) ==
    [db EXCEPT !.documents = {d \in @ : d.doc_id # doc_id}]

\* setup_database(use_existing): the database file is removed unless the
\* existing one is to be used; Corpus.__init__ then creates the missing tables.
setup_database(db, use_existing) ==
    IF use_existing THEN db
    ELSE [documents |-> {}, lemmas |-> {}, documents_lemmas |-> {}]

\* get_hashmap(): {row.xxhash64: row.doc_id for row in rows}; `rows` is the
\* order in which the SELECT returned the documents, and of two rows with one
\* xxhash64 the later one stays in the dict. The keys are the stored integers.
get_hashmap(rows) ==
    [k \in {Some(rows[i].xxhash64) : i \in DOMAIN rows} |->
        rows[Max({i \in DOMAIN rows : Some(rows[i].xxhash64) = k})].doc_id]

\* For IDF: in how many docs each lemma occurs, grouped over documents_lemmas.
lemmas_id_doccount_map(db) ==
    [l \in {r.lemma_id : r \in db.documents_lemmas} |->
        Cardinality({r.doc_id : r \in {q \in db.documents_lemmas : q.lemma_id = l}})]

lemmas_count(db, doc_id) ==
    [l \in {r.lemma_id : r \in {q \in db.documents_lemmas : q.doc_id = doc_id}} |->
        (CHOOSE r \in db.documents_lemmas : r.doc_id = doc_id /\ r.lemma_id = l).lemma_count]

lemmas_tf(db, doc_id) ==
    [l \in {r.lemma_id : r \in {q \in db.documents_lemmas : q.doc_id = doc_id}} |->
        (CHOOSE r \in db.documents_lemmas : r.doc_id = doc_id /\ r.lemma_id = l).lemma_tf]

\* dict.get(key, default)
Get(map, key, default) == IF key \in DOMAIN map THEN map[key] ELSE default

\* tf * math.log(total_docs / doccount)
Score(tf, total_docs, doccount) == [tf |-> tf, N |-> total_docs, df |-> doccount]
ZeroScore == Score(<<0, 1>>, 1, 1)

\* s >= t over the reals: (n/d) ln(N/df) >= (n'/d') ln(N'/df').
ScoreGeq(s, t) ==
    LET e == s.tf[1] * t.tf[2]
        f == t.tf[1] * s.tf[2]
    IN  Pow(s.N, e) * Pow(t.df, f) >= Pow(t.N, f) * Pow(s.df, e)

ScoreEq(s, t) == ScoreGeq(s, t) /\ ScoreGeq(t, s)

\* The empty tf_map is looked at before the empty corpus.
lemma_tfidf_map_rows_first(db, doc_id) ==
    LET total_docs == Cardinality(db.documents)
        tf_map     == lemmas_tf(db, doc_id)
        doccounts  == lemmas_id_doccount_map(db)
        scored     == {l \in DOMAIN tf_map : Get(doccounts, l, 0) # 0}
    IN  IF DOMAIN tf_map = {}
        THEN [status |-> "error", err |-> "RuntimeError", result |-> << >>]
        ELSE IF total_docs = 0 THEN [status |-> "ok", err |-> "", result |-> << >>]
        ELSE [status |-> "ok", err |-> "",
              result |-> [l \in scored |-> Score(tf_map[l], total_docs, doccounts[l])]]

\* lemma_tfidf_map(doc_id): total_docs == 0 first, then the empty tf_map, then
\* `doccount == 0: continue` per lemma.
lemma_tfidf_map(db, doc_id) ==
    LET total_docs == Cardinality(db.documents)
        tf_map     == lemmas_tf(db, doc_id)
        doccounts  == lemmas_id_doccount_map(db)
        scored     == {l \in DOMAIN tf_map : Get(doccounts, l, 0) # 0}
    IN  IF total_docs = 0 THEN [status |-> "ok", err |-> "", result |-> << >>]
        ELSE IF DOMAIN tf_map = {}
             THEN [status |-> "error", err |-> "RuntimeError", result |-> << >>]
        ELSE [status |-> "ok", err |-> "",
              result |-> [l \in scored |-> Score(tf_map[l], total_docs, doccounts[l])]]

\* reverse=True is left out: ascending.
sorted_by_tfidf_asc(data) ==
    LET p == CHOOSE q \in Perms(DOMAIN data) :
                \A i, j \in DOMAIN data : i < j =>
                    \/ ~ScoreGeq(data[q[i]].tf_idf, data[q[j]].tf_idf)
                    \/ (ScoreEq(data[q[i]].tf_idf, data[q[j]].tf_idf) /\ q[i] < q[j])
    IN  [i \in DOMAIN data |-> data[p[i]]]

\* sorted(data, key=tf-idf, reverse=True): stable, equal keys keep their order.
sorted_by_tfidf_desc(data) ==
    LET p == CHOOSE q \in Perms(DOMAIN data) :
                \A i, j \in DOMAIN data : i < j =>
                    \/ ~ScoreGeq(data[q[j]].tf_idf, data[q[i]].tf_idf)
                    \/ (ScoreEq(data[q[i]].tf_idf, data[q[j]].tf_idf) /\ q[i] < q[j])
    IN  [i \in DOMAIN data |-> data[p[i]]]

\* document_lemmas_info(doc_id): `lemma_ids` is the order in which the SELECT
\* of lemmas_count, which has no ORDER BY, returned the document's rows.
document_lemmas_info(db, doc_id, lemma_ids) ==
    LET total_docs == Cardinality(db.documents)
        tf_map     == lemmas_tf(db, doc_id)
        count_map  == lemmas_count(db, doc_id)
        tfidf      == lemma_tfidf_map(db, doc_id)
        doccounts  == lemmas_id_doccount_map(db)
        word(id)   == IF \E r \in db.lemmas : r.lemma_id = id
                      THEN (CHOOSE r \in db.lemmas : r.lemma_id = id).lemma
                      ELSE "[id]"
        data       == [i \in DOMAIN lemma_ids |->
                         [word   |-> word(lemma_ids[i]),
                          count  |-> Get(count_map, lemma_ids[i], 0),
                          tf     |-> Get(tf_map, lemma_ids[i], <<0, 1>>),
                          idf    |-> IF Get(doccounts, lemma_ids[i], 1) # 0
                                     THEN Score(<<1, 1>>, total_docs, Get(doccounts, lemma_ids[i], 1))
                                     ELSE ZeroScore,
                          tf_idf |-> Get(tfidf.result, lemma_ids[i], ZeroScore)]]
    IN  IF total_docs = 0 THEN [status |-> "ok", err |-> "", result |-> << >>]
        ELSE IF tfidf.status = "error" THEN tfidf
        ELSE [status |-> "ok", err |-> "", result |-> sorted_by_tfidf_desc(data)]

\* ------------------------------------------------------------------ streamlit_app.py
\* The index is not updated after add_document.
HashmapSyncForgotten(map, key, doc_id) == map

\* hashmap[xxhash64] = doc_id
HashmapSync(map, key, doc_id) ==
    [k \in DOMAIN map \cup {key} |-> IF k = key THEN doc_id ELSE map[k]]

Op(op, status, err, doc_id, text, keys, result) ==
    [op |-> op, status |-> status, err |-> err, doc_id |-> doc_id,
     text |-> text, keys |-> keys, result |-> result]

Record(t, doc_id) == [ingested EXCEPT ![t] = IF @ = 0 THEN doc_id ELSE @]

\* ---- the state of what runs beside the session (all idle at the start)
Procs == {"w1", "w2"}          \* threads calling add_document at the same time

\* A second session, started on the same database: its own
\* st.session_state.hashmap, and its place in the loop body ("idle": between
\* files, "add": before add_document, "insert": before the hashmap update)
\* with the file's text and the doc_id add_document returned.
PeerIdle(map) == [hashmap |-> map, pc |-> "idle", text |-> None, doc_id |-> 0]

\* A call of add_document by a thread: where it is ("idle", "entered": at the
\* first INSERT, "writing": inside its transaction, "done": returned), the call,
\* the store its transaction began on, whether it had to wait for the write
\* lock, and what it returned.
TxState(pc, call, base, waited, status, err, doc_id) ==
    [pc |-> pc, call |-> call, base |-> base, waited |-> waited,
     status |-> status, err |-> err, doc_id |-> doc_id]

TxIdle == TxState("idle", None, None, FALSE, "", "", 0)

\* The write lock is taken although another transaction holds it.
write_lock_never_held(t) == TRUE

\* SQLite has one writer at a time: the first INSERT of a transaction takes the
\* database's write lock (pysqlite sends BEGIN before it), which is free when
\* no other connection is inside a write transaction.
write_lock_free(t) == \A q \in DOMAIN t : t[q].pc # "writing"

\* The reads of a read operation, in the order the code makes them; each is a
\* SELECT in a Session of its own. The tfidf_ ones are those of the
\* lemma_tfidf_map call inside document_lemmas_info.
ReadNames == {"total_docs", "tf", "count", "tfidf_total_docs", "tfidf_tf",
              "tfidf_doccount", "doccount", "lemmas"}

\* A read operation between its reads: the next read ("idle" before a call,
\* "done" after the return), the values read so far (None: not read), the
\* outcome, and the committed stores since the call began that agree with
\* every value read so far.
ReaderIdle == [pc |-> "idle", op |-> "", doc_id |-> 0,
               vals |-> [n \in ReadNames |-> None],
               status |-> "", err |-> "", result |-> << >>, snapshots |-> {}]

Init ==
    /\ documents = {}
    /\ lemmas = {}
    /\ documents_lemmas = {}
    /\ hashmap = << >>
    /\ last = Op("init", "ok", "", 0, None, None, << >>)
    /\ maxAssigned = 0
    /\ ingested = [t \in Texts |-> 0]
    /\ peer = PeerIdle(<< >>)
    /\ tx = [p \in Procs |-> TxIdle]
    /\ reader = ReaderIdle

\* `if not file_contents: continue`
UploadEmpty ==
    /\ last' = Op("upload", "skipped", "", 0, Some(<< >>), None, << >>)
    /\ UNCHANGED <<documents, lemmas, documents_lemmas, hashmap, maxAssigned, ingested>>
    /\ UNCHANGED concurrent

\* `if xxhash64 in hashmap`: the document the index names is returned.
UploadDuplicate(t) ==
    /\ t # << >>
    /\ hash_original_text(t) \in DOMAIN hashmap
    /\ last' = Op("upload", "duplicate", "", hashmap[hash_original_text(t)], Some(t), None, << >>)
    /\ ingested' = Record(t, hashmap[hash_original_text(t)])
    /\ UNCHANGED <<documents, lemmas, documents_lemmas, hashmap, maxAssigned>>
    /\ UNCHANGED concurrent

\* `if not tokens: ... continue`
UploadNoTokens(t) ==
    /\ t # << >>
    /\ hash_original_text(t) \notin DOMAIN hashmap
    /\ tokenize(t) = << >>
    /\ last' = Op("upload", "dropped", "", 0, Some(t), None, << >>)
    /\ UNCHANGED <<documents, lemmas, documents_lemmas, hashmap, maxAssigned, ingested>>
    /\ UNCHANGED concurrent

\* The rest of the loop body: add_document, then `hashmap[xxhash64] = doc_id`;
\* an exception of add_document leaves the loop before the hashmap is touched.
UploadNew(t, order, fault) ==
    /\ t # << >>
    /\ hash_original_text(t) \notin DOMAIN hashmap
    /\ tokenize(t) # << >>
    /\ NextRowid({d.doc_id : d \in documents}) <= MaxDocId
    /\ write_lock_free(tx)
    /\ order \in Perms(DOMAIN lemmas_count_map_of(tokenize(t)))
    /\ UNCHANGED concurrent
    /\ \E r \in {add_document(Store, NlpDocContext(t), order, fault)} :
           /\ documents' = r.db.documents
           /\ lemmas' = r.db.lemmas
           /\ documents_lemmas' = r.db.documents_lemmas
           /\ IF r.status = "ok"
              THEN /\ hashmap' = HashmapSync(hashmap, hash_original_text(t), r.doc_id)
                   /\ maxAssigned' = IF r.doc_id > maxAssigned THEN r.doc_id ELSE maxAssigned
                   /\ ingested' = Record(t, r.doc_id)
                   /\ last' = Op("upload", "added", "", r.doc_id, Some(t), None, << >>)
              ELSE /\ last' = Op("upload", "error", r.err, 0, Some(t), None, << >>)
                   /\ UNCHANGED <<hashmap, maxAssigned, ingested>>

Upload ==
    \/ UploadEmpty
    \/ \E t \in Texts : UploadDuplicate(t) \/ UploadNoTokens(t)
    \/ \E t \in Texts, fault \in 0..4 :
          \E order \in Perms(DOMAIN lemmas_count_map_of(tokenize(t))) : UploadNew(t, order, fault)

\* `if 'hashmap' not in st.session_state: ... = corpus.get_hashmap()`: the
\* hashmaps the one-time init can leave in the session, given what the session
\* state holds under 'hashmap' (None for no such key).
one_time_init_hashmap(session_hashmap, db) ==
    IF ~IsNone(session_hashmap) THEN {Val(session_hashmap)}
    ELSE {get_hashmap(rows) : rows \in Perms(db.documents)}

\* A new session runs the script from the top: the database choice is
\* confirmed, which sets st.session_state.hashmap = {} next to db_ready, and on
\* the rerun the engine, the corpus and the hashmap are initialised once.
Bootstrapping(use_existing) ==
    /\ documents' = setup_database(Store, use_existing).documents
    /\ lemmas' = setup_database(Store, use_existing).lemmas
    /\ documents_lemmas' = setup_database(Store, use_existing).documents_lemmas
    /\ hashmap' \in one_time_init_hashmap(Some(<< >>), setup_database(Store, use_existing))
    /\ maxAssigned' = IF use_existing THEN maxAssigned ELSE 0
    /\ ingested' = [t \in Texts |-> 0]
    /\ last' = Op("bootstrapping", "ok", "", 0, None, None, << >>)
    /\ UNCHANGED concurrent

NewSession == \E use_existing \in BOOLEAN : Bootstrapping(use_existing)

\* A caller's context: the pipeline's, with one field unset or one key missing
\* from one of the two maps.
LongestText == CHOOSE t \in Texts : \A u \in Texts : Len(u) <= Len(t)
Unset(nlp, f) == [nlp EXCEPT ![f] = None]
DropCount(nlp, l) ==
    [nlp EXCEPT !.lemmas_count_map = Some(Restrict(Val(@), DOMAIN Val(@) \ {l}))]
DropTf(nlp, l) ==
    [nlp EXCEPT !.lemmas_tf_map = Some(Restrict(Val(@), DOMAIN Val(@) \ {l}))]

\* The contexts tried for a text: the pipeline's own, and the ways of leaving it
\* incomplete. A context with a field unset is refused before any field is read,
\* so those are tried on the longest text only.
Contexts(t) ==
    {NlpDocContext(t)}
        \cup (IF t = LongestText THEN {Unset(NlpDocContext(t), f) : f \in FieldNames} ELSE {})
        \cup {DropCount(NlpDocContext(t), l) : l \in Lemmas}
        \cup {DropTf(NlpDocContext(t), l) : l \in Lemmas}

\* What the two maps of a context that passes is_full look like.
KeysOf(nlp) ==
    IF ~is_full(nlp) THEN None
    ELSE Some([counts_empty |-> DOMAIN Val(nlp.lemmas_count_map) = {},
               tf_empty     |-> DOMAIN Val(nlp.lemmas_tf_map) = {},
               only_counts  |-> DOMAIN Val(nlp.lemmas_count_map) \ DOMAIN Val(nlp.lemmas_tf_map),
               only_tf      |-> DOMAIN Val(nlp.lemmas_tf_map) \ DOMAIN Val(nlp.lemmas_count_map)])

Orders(nlp) ==
    IF ~is_full(nlp) THEN {<< >>} ELSE Perms(DOMAIN Val(nlp.lemmas_count_map))

\* The storage faults tried on a call: each statement, on the pipeline's own
\* context of the longest text (the one with most to roll back), in one
\* iteration order.
Faults(t, nlp, order) ==
    IF /\ t = LongestText
       /\ nlp = NlpDocContext(t)
       /\ order = (CHOOSE o \in Orders(nlp) : TRUE)
    THEN 0..4 ELSE {0}

\* Every call of add_document tried: context, iteration order, fault.
AddDocumentCalls ==
    UNION {UNION {UNION {{[nlp |-> nlp, order |-> order, fault |-> fault] :
                             fault \in Faults(t, nlp, order)} :
                         order \in Orders(nlp)} :
                  nlp \in Contexts(t)} :
           t \in {u \in Texts : tokenize(u) # << >>}}

\* Corpus.add_document called with any context.
AddDocument ==
    /\ NextRowid({d.doc_id : d \in documents}) <= MaxDocId
    /\ write_lock_free(tx)
    /\ \E call \in AddDocumentCalls :
          \E r \in {add_document(Store, call.nlp, call.order, call.fault)} :
              /\ documents' = r.db.documents
              /\ lemmas' = r.db.lemmas
              /\ documents_lemmas' = r.db.documents_lemmas
              /\ maxAssigned' = IF r.doc_id > maxAssigned THEN r.doc_id ELSE maxAssigned
              /\ last' = Op("add_document", r.status, r.err, r.doc_id, None, KeysOf(call.nlp), << >>)
              /\ UNCHANGED <<hashmap, ingested>>
              /\ UNCHANGED concurrent

\* Corpus.del_document called with any doc_id.
DelDocument ==
    \E doc_id \in DocIds :
        /\ write_lock_free(tx)
        /\ documents' = del_document(Store, doc_id).documents
        /\ last' = Op("del_document", "ok", "", doc_id, None, None, << >>)
        /\ UNCHANGED <<lemmas, documents_lemmas, hashmap, maxAssigned, ingested>>
        /\ UNCHANGED concurrent

\* ---- add_document called by several threads at once
\* The calls the threads make: the pipeline's context of a text, no fault.
TxCalls == {c \in AddDocumentCalls :
               c.fault = 0 /\ is_full(c.nlp) /\ c.nlp = NlpDocContext(Val(c.nlp.text_input))}

\* A thread calls add_document(nlp) and reaches `with session.begin()`.
TxEnter(p) ==
    /\ tx[p].pc \in {"idle", "done"}
    /\ NextRowid({d.doc_id : d \in documents})
          + Cardinality({q \in Procs : tx[q].pc \in {"entered", "writing"}}) <= MaxDocId
    /\ \E call \in TxCalls :
          tx' = [tx EXCEPT ![p] = TxState("entered", Some(call), None, FALSE, "", "", 0)]
    /\ UNCHANGED <<documents, lemmas, documents_lemmas, hashmap, last, maxAssigned,
                   ingested, peer, reader>>

\* Its first INSERT finds the write lock taken: the busy handler retries.
TxWait(p) ==
    /\ tx[p].pc = "entered"
    /\ ~write_lock_free(tx)
    /\ ~tx[p].waited
    /\ tx' = [tx EXCEPT ![p].waited = TRUE]
    /\ UNCHANGED <<documents, lemmas, documents_lemmas, hashmap, last, maxAssigned,
                   ingested, peer, reader>>

\* The busy timeout (5 s by default) passes before the lock is released:
\* OperationalError (database is locked), nothing was written.
TxBusy(p) ==
    /\ tx[p].pc = "entered"
    /\ ~write_lock_free(tx)
    /\ tx[p].waited
    /\ tx' = [tx EXCEPT ![p] = TxState("done", tx[p].call, None, TRUE,
                                       "error", "OperationalError", 0)]
    /\ last' = Op("add_document", "error", "OperationalError", 0, None,
                  KeysOf(Val(tx[p].call).nlp), << >>)
    /\ UNCHANGED <<documents, lemmas, documents_lemmas, hashmap, maxAssigned,
                   ingested, peer, reader>>

\* Its first INSERT gets the write lock: the transaction works on the store
\* as committed at this moment, and nobody else sees its rows before COMMIT.
TxBegin(p) ==
    /\ tx[p].pc = "entered"
    /\ write_lock_free(tx)
    /\ tx' = [tx EXCEPT ![p].pc = "writing", ![p].base = Some(Store)]
    /\ UNCHANGED <<documents, lemmas, documents_lemmas, hashmap, last, maxAssigned,
                   ingested, peer, reader>>

\* The remaining statements run and the `with session.begin()` block is left:
\* COMMIT (or ROLLBACK on an exception) publishes the result and frees the lock.
TxCommit(p) ==
    /\ tx[p].pc = "writing"
    /\ \E call \in {Val(tx[p].call)} :
       \E r \in {add_document(Val(tx[p].base), call.nlp, call.order, call.fault)} :
           /\ documents' = r.db.documents
           /\ lemmas' = r.db.lemmas
           /\ documents_lemmas' = r.db.documents_lemmas
           /\ maxAssigned' = IF r.doc_id > maxAssigned THEN r.doc_id ELSE maxAssigned
           /\ tx' = [tx EXCEPT ![p] = TxState("done", tx[p].call, None, tx[p].waited,
                                              r.status, r.err, r.doc_id)]
           /\ last' = Op("add_document", r.status, r.err, r.doc_id, None,
                         KeysOf(call.nlp), << >>)
    /\ UNCHANGED <<hashmap, ingested, peer, reader>>

ConcurrentAddDocument ==
    \E p \in Procs : TxEnter(p) \/ TxWait(p) \/ TxBusy(p) \/ TxBegin(p) \/ TxCommit(p)

\* ---- the upload loop of a second session, statement by statement
\* `xxhash64 = hash_original_text(doc_cxt); if xxhash64 in hashmap: ... continue`,
\* then `if not tokens: ... continue`; otherwise on to add_document.
PeerLookup(t) ==
    /\ peer.pc = "idle"
    /\ t # << >>
    /\ peer' = IF \/ hash_original_text(t) \in DOMAIN peer.hashmap
                  \/ tokenize(t) = << >>
               THEN peer
               ELSE [peer EXCEPT !.pc = "add", !.text = Some(t)]
    /\ UNCHANGED <<documents, lemmas, documents_lemmas, hashmap, last, maxAssigned,
                   ingested, tx, reader>>

\* `doc_id = corpus.add_document(doc_cxt)`; an exception ends the script run.
PeerAdd ==
    /\ peer.pc = "add"
    /\ NextRowid({d.doc_id : d \in documents}) <= MaxDocId
    /\ write_lock_free(tx)
    /\ \E order \in Perms(DOMAIN lemmas_count_map_of(tokenize(Val(peer.text)))) :
          \E r \in {add_document(Store, NlpDocContext(Val(peer.text)), order, 0)} :
              /\ documents' = r.db.documents
              /\ lemmas' = r.db.lemmas
              /\ documents_lemmas' = r.db.documents_lemmas
              /\ maxAssigned' = IF r.doc_id > maxAssigned THEN r.doc_id ELSE maxAssigned
              /\ peer' = IF r.status = "ok"
                         THEN [peer EXCEPT !.pc = "insert", !.doc_id = r.doc_id]
                         ELSE PeerIdle(peer.hashmap)
    /\ UNCHANGED <<hashmap, last, ingested, tx, reader>>

\* `hashmap[xxhash64] = doc_id`
PeerInsert ==
    /\ peer.pc = "insert"
    /\ peer' = PeerIdle(HashmapSync(peer.hashmap, hash_original_text(Val(peer.text)),
                                    peer.doc_id))
    /\ UNCHANGED <<documents, lemmas, documents_lemmas, hashmap, last, maxAssigned,
                   ingested, tx, reader>>

PeerUpload == (\E t \in Texts : PeerLookup(t)) \/ PeerAdd \/ PeerInsert

\* ---- a read operation, one SELECT at a time, while other threads write
\* What the SELECT of a read returns on the committed store.
ReadValue(n, db, doc_id) ==
    CASE n \in {"total_docs", "tfidf_total_docs"} -> Cardinality(db.documents)
      [] n \in {"tf", "tfidf_tf"}                 -> lemmas_tf(db, doc_id)
      [] n = "count"                              -> lemmas_count(db, doc_id)
      [] n \in {"doccount", "tfidf_doccount"}     -> lemmas_id_doccount_map(db)
      [] OTHER                                    -> db.lemmas

\* Where the operation goes after read n returned v: the next read, or "done".
NextRead(op, n, v) ==
    IF op = "lemma_tfidf_map"
    THEN CASE n = "total_docs" -> IF v = 0 THEN "done" ELSE "tf"
           [] n = "tf"         -> IF DOMAIN v = {} THEN "done" ELSE "doccount"
           [] OTHER            -> "done"
    ELSE CASE n = "total_docs"       -> IF v = 0 THEN "done" ELSE "tf"
           [] n = "tf"               -> "count"
           [] n = "count"            -> "tfidf_total_docs"
           [] n = "tfidf_total_docs" -> IF v = 0 THEN "doccount" ELSE "tfidf_tf"
           [] n = "tfidf_tf"         -> IF DOMAIN v = {} THEN "done" ELSE "tfidf_doccount"
           [] n = "tfidf_doccount"   -> "doccount"
           [] n = "doccount"         -> "lemmas"
           [] OTHER                  -> "done"

\* lemma_tfidf_map from the values of its three reads.
tfidf_of_reads(total_docs, tf_map, doccounts) ==
    LET scored == {l \in DOMAIN tf_map : Get(doccounts, l, 0) # 0}
    IN  IF total_docs = 0 THEN [status |-> "ok", err |-> "", result |-> << >>]
        ELSE IF DOMAIN tf_map = {}
             THEN [status |-> "error", err |-> "RuntimeError", result |-> << >>]
        ELSE [status |-> "ok", err |-> "",
              result |-> [l \in scored |-> Score(tf_map[l], total_docs, doccounts[l])]]

\* A read that was not reached counts as its empty value.
Read(vals, n, default) == IF IsNone(vals[n]) THEN default ELSE Val(vals[n])

\* document_lemmas_info from the values of its reads; lemma_ids is the order
\* of the keys of count_map.
report_of_reads(vals, lemma_ids) ==
    LET total_docs == Read(vals, "total_docs", 0)
        tf_map     == Read(vals, "tf", << >>)
        count_map  == Read(vals, "count", << >>)
        tfidf      == tfidf_of_reads(Read(vals, "tfidf_total_docs", 0),
                                     Read(vals, "tfidf_tf", << >>),
                                     Read(vals, "tfidf_doccount", << >>))
        doccounts  == Read(vals, "doccount", << >>)
        rows       == Read(vals, "lemmas", {})
        word(id)   == IF \E r \in rows : r.lemma_id = id
                      THEN (CHOOSE r \in rows : r.lemma_id = id).lemma
                      ELSE "[id]"
        data       == [i \in DOMAIN lemma_ids |->
                         [word   |-> word(lemma_ids[i]),
                          count  |-> Get(count_map, lemma_ids[i], 0),
                          tf     |-> Get(tf_map, lemma_ids[i], <<0, 1>>),
                          idf    |-> IF Get(doccounts, lemma_ids[i], 1) # 0
                                     THEN Score(<<1, 1>>, total_docs, Get(doccounts, lemma_ids[i], 1))
                                     ELSE ZeroScore,
                          tf_idf |-> Get(tfidf.result, lemma_ids[i], ZeroScore)]]
    IN  IF total_docs = 0 THEN [status |-> "ok", err |-> "", result |-> << >>]
        ELSE IF tfidf.status = "error" THEN tfidf
        ELSE [status |-> "ok", err |-> "", result |-> sorted_by_tfidf_desc(data)]

\* What the operation returns once its reads are made.
Outcome(op, vals, lemma_ids) ==
    IF op = "lemma_tfidf_map"
    THEN tfidf_of_reads(Read(vals, "total_docs", 0), Read(vals, "tf", << >>),
                        Read(vals, "doccount", << >>))
    ELSE report_of_reads(vals, lemma_ids)

\* The store agrees with every value the operation has read.
AgreesWith(db, vals, doc_id) ==
    \A n \in ReadNames : IsNone(vals[n]) \/ Val(vals[n]) = ReadValue(n, db, doc_id)

\* lemma_tfidf_map(doc_id) or document_lemmas_info(doc_id) is called.
ReadCall(op, doc_id) ==
    /\ reader.pc \in {"idle", "done"}
    /\ reader' = [ReaderIdle EXCEPT !.pc = "total_docs", !.op = op, !.doc_id = doc_id,
                                    !.snapshots = {Store}]
    /\ UNCHANGED <<documents, lemmas, documents_lemmas, hashmap, last, maxAssigned,
                   ingested, peer, tx>>

\* Its next SELECT runs, on the store as committed now.
ReadStep ==
    /\ reader.pc \in ReadNames
    /\ LET n    == reader.pc
           v    == ReadValue(n, Store, reader.doc_id)
           vals == [reader.vals EXCEPT ![n] = Some(v)]
           next == NextRead(reader.op, n, v)
       IN  \E lemma_ids \in (IF next = "done" /\ reader.op = "document_lemmas_info"
                              THEN Perms(DOMAIN Read(vals, "count", << >>))
                              ELSE {<< >>}) :
              LET r == IF next = "done" THEN Outcome(reader.op, vals, lemma_ids)
                       ELSE [status |-> "", err |-> "", result |-> << >>]
              IN  reader' = [reader EXCEPT
                                !.pc = next, !.vals = vals,
                                !.status = r.status, !.err = r.err, !.result = r.result,
                                !.snapshots = {S \in @ : AgreesWith(S, vals, reader.doc_id)}]
    /\ UNCHANGED <<documents, lemmas, documents_lemmas, hashmap, last, maxAssigned,
                   ingested, peer, tx>>

\* The committed store is db from now on, also for a running read operation.
Committed(db) ==
    /\ documents' = db.documents
    /\ lemmas' = db.lemmas
    /\ documents_lemmas' = db.documents_lemmas
    /\ reader' = IF reader.pc \in ReadNames
                 THEN [reader EXCEPT !.snapshots =
                          {S \in @ \cup {db} : AgreesWith(S, reader.vals, reader.doc_id)}]
                 ELSE reader

\* Another thread's add_document commits.
AddBesideReader ==
    /\ NextRowid({d.doc_id : d \in documents}) <= MaxDocId
    /\ write_lock_free(tx)
    /\ \E call \in TxCalls :
          \E r \in {add_document(Store, call.nlp, call.order, call.fault)} :
              /\ r.status = "ok"
              /\ Committed(r.db)
              /\ maxAssigned' = IF r.doc_id > maxAssigned THEN r.doc_id ELSE maxAssigned
    /\ UNCHANGED <<hashmap, last, ingested, peer, tx>>

\* Another thread's del_document commits.
DelBesideReader ==
    /\ write_lock_free(tx)
    /\ \E doc_id \in DocIds :
          /\ Stored(doc_id)
          /\ Committed(del_document(Store, doc_id))
    /\ UNCHANGED <<hashmap, last, maxAssigned, ingested, peer, tx>>

ConcurrentRead ==
    \/ \E op \in {"lemma_tfidf_map", "document_lemmas_info"}, doc_id \in DocIds :
          ReadCall(op, doc_id)
    \/ ReadStep
    \/ AddBesideReader
    \/ DelBesideReader

Tfidf ==
    \E doc_id \in DocIds :
        \E r \in {lemma_tfidf_map(Store, doc_id)} :
            /\ last' = Op("lemma_tfidf_map", r.status, r.err, doc_id, None, None, r.result)
            /\ UNCHANGED <<documents, lemmas, documents_lemmas, hashmap, maxAssigned, ingested>>
            /\ UNCHANGED concurrent

Report ==
    \E doc_id \in DocIds :
      \E lemma_ids \in Perms(DOMAIN lemmas_count(Store, doc_id)) :
        \E r \in {document_lemmas_info(Store, doc_id, lemma_ids)} :
            /\ last' = Op("document_lemmas_info", r.status, r.err, doc_id, None, None, r.result)
            /\ UNCHANGED <<documents, lemmas, documents_lemmas, hashmap, maxAssigned, ingested>>
            /\ UNCHANGED concurrent

Next ==
    \/ Upload \/ AddDocument \/ DelDocument \/ Tfidf \/ Report
    \/ NewSession \/ PeerUpload \/ ConcurrentAddDocument \/ ConcurrentRead

Spec == Init /\ [][Next]_vars

\* The store under its two writers. Upload changes the tables only through
\* add_document on a pipeline context, which AddDocument also passes.
SpecStore == Init /\ [][AddDocument \/ DelDocument]_vars

\* The upload loop of one session, with deletions in between.
SpecUpload == Init /\ [][Upload \/ DelDocument]_vars

\* The read operations over every store the writers can produce.
SpecQuery == Init /\ [][AddDocument \/ DelDocument \/ Tfidf \/ Report]_vars

\* add_document called by two threads at the same time.
SpecWriters == Init /\ [][ConcurrentAddDocument]_vars

\* A read operation, read by read, while other threads write.
SpecReaders == Init /\ [][ConcurrentRead]_vars

\* Two sessions on the same database, each running the upload loop.
SpecSessions == Init /\ [][Upload \/ PeerUpload]_vars

\* One session after another on the same database file, each running the
\* upload loop.
SpecSession == Init /\ [][NewSession \/ Upload \/ DelDocument]_vars

\* ------------------------------------------------------------------ properties
StatRows(doc_id) == {r \in documents_lemmas : r.doc_id = doc_id}
StatLemmaIds(doc_id) == {r.lemma_id : r \in StatRows(doc_id)}
corpus_size == Cardinality(documents)

\* C1: a failed add_document leaves documents, lemmas and documents_lemmas
\* exactly as they were before the call.
C1_AddDocumentAllOrNothing ==
    [][(last'.op = "add_document" /\ last'.status = "error")
        => (documents' = documents /\ lemmas' = lemmas
            /\ documents_lemmas' = documents_lemmas)]_vars

\* add_document failed on the primary key of documents_lemmas, after the
\* document row and the lemma rows were written inside the transaction.
C1_Witness ==
    /\ last.op = "add_document"
    /\ last.status = "error"
    /\ last.err = "IntegrityError"
    /\ ~IsNone(last.keys)
    /\ ~Val(last.keys).counts_empty

\* C2: uploading a text that an earlier upload of the session resolved gives
\* the same doc_id again and stores nothing; the upload that stored it added
\* exactly one document.
C2_IngestIdempotent ==
    [][last'.op = "upload" /\ Val(last'.text) # << >> =>
        /\ ingested[Val(last'.text)] # 0 =>
              /\ last'.status = "duplicate"
              /\ last'.doc_id = ingested[Val(last'.text)]
              /\ documents' = documents
        /\ last'.status = "added" =>
              /\ ingested[Val(last'.text)] = 0
              /\ Cardinality(documents') = Cardinality(documents) + 1]_vars

\* The text stored first as document 1 is uploaded again after another text
\* was stored as document 2, and document 1 is returned.
C2_Witness ==
    /\ last.op = "upload"
    /\ last.status = "duplicate"
    /\ last.doc_id = 1
    /\ ingested[Val(last.text)] = 1
    /\ \E d \in documents :
          d.doc_id = 1 /\ d.compressed_text = compress_original_text(Val(last.text))
    /\ Stored(2)

\* C3: del_document(doc_id) removes the Document row with that id and all stat
\* rows of that doc_id, nothing else, and never a lemmas row.
C3_DeleteRemovesDocumentAndStats ==
    [][last'.op = "del_document" =>
        /\ documents' = {d \in documents : d.doc_id # last'.doc_id}
        /\ documents_lemmas' = {r \in documents_lemmas : r.doc_id # last'.doc_id}
        /\ lemmas' = lemmas]_vars

\* C4: every document count of lemmas_id_doccount_map is at most the number of
\* Document rows.
C4_DocFrequencyAtMostCorpusSize ==
    \A l \in DOMAIN lemmas_id_doccount_map(Store) :
        lemmas_id_doccount_map(Store)[l] <= corpus_size

\* C5: every Document row has at least one stat row with its doc_id.
C5_DocumentsHaveLemmas ==
    \A d \in documents : StatRows(d.doc_id) # {}

\* add_document was called with an empty lemmas_count_map on a corpus that
\* holds a document, and raised.
C5_Witness ==
    /\ documents # {}
    /\ last.op = "add_document"
    /\ ~IsNone(last.keys)
    /\ Val(last.keys).counts_empty
    /\ last.status = "error"

\* C6: add_document fails whenever lemmas_count_map or lemmas_tf_map is empty
\* or their key sets differ.
C6_RejectsIncompleteInput ==
    (/\ last.op = "add_document"
     /\ ~IsNone(last.keys)
     /\ \/ Val(last.keys).counts_empty
        \/ Val(last.keys).tf_empty
        \/ Val(last.keys).only_counts # {}
        \/ Val(last.keys).only_tf # {})
    => last.status = "error"

\* C7: a successful add_document returns a doc_id greater than every doc_id
\* assigned before.
C7_DocIdsNeverReused ==
    [][(last'.op = "add_document" /\ last'.status = "ok" /\ documents' # documents)
        => last'.doc_id > maxAssigned]_vars

\* C8: lemma_tfidf_map returns an empty map on an empty corpus, whatever the
\* doc_id; otherwise raises when the doc_id has no stat rows; otherwise scores
\* only lemmas whose document count is not 0.
C8_TfidfEdgeCases ==
    last.op = "lemma_tfidf_map" =>
        IF corpus_size = 0
        THEN last.status = "ok" /\ DOMAIN last.result = {}
        ELSE IF StatRows(last.doc_id) = {}
        THEN last.status = "error"
        ELSE /\ last.status = "ok"
             /\ \A l \in DOMAIN last.result : last.result[l].df >= 1
             /\ \A l \in StatLemmaIds(last.doc_id) :
                   l \in DOMAIN last.result
                       <=> \E r \in documents_lemmas : r.lemma_id = l

\* lemma_tfidf_map answered {} on an empty corpus for a doc_id without stat rows.
C8_Witness ==
    /\ last.op = "lemma_tfidf_map"
    /\ corpus_size = 0
    /\ StatRows(last.doc_id) = {}
    /\ last.status = "ok"

\* The documents that hold a stat row for the lemma.
DocumentsWith(lemma_id) ==
    {d \in documents : \E r \in StatRows(d.doc_id) : r.lemma_id = lemma_id}

\* C9: for a stored document, lemma_tfidf_map has the lemma_ids of its stat
\* rows as keys, each score is tf * ln(N / df) with df the number of documents
\* that have a stat row for the lemma, and a lemma of all N documents scores 0.
C9_TfidfScores ==
    (last.op = "lemma_tfidf_map" /\ Stored(last.doc_id)) =>
        /\ last.status = "ok"
        /\ DOMAIN last.result = StatLemmaIds(last.doc_id)
        /\ \A r \in StatRows(last.doc_id) :
              /\ last.result[r.lemma_id] =
                    Score(r.lemma_tf, corpus_size, Cardinality(DocumentsWith(r.lemma_id)))
              /\ DocumentsWith(r.lemma_id) = documents
                    => ScoreEq(last.result[r.lemma_id], ZeroScore)

WordId(word) == (CHOOSE r \in lemmas : r.lemma = word).lemma_id

IndexKey(xxhash64) == IF xxhash64 = 0 THEN None ELSE Some(xxhash64)

\* C11: after initialisation on any database and after every completed upload,
\* the fingerprint of every stored document is a key of the session hashmap,
\* mapped to the doc_id of a stored document with that fingerprint.
C11_IndexCoversStore ==
    last.op \in {"bootstrapping", "upload"} =>
        \A d \in documents :
            /\ IndexKey(d.xxhash64) \in DOMAIN hashmap
            /\ \E e \in documents :
                  e.doc_id = hashmap[IndexKey(d.xxhash64)] /\ e.xxhash64 = d.xxhash64

\* The lemma_ids the stat rows of an ingested document must carry: one per
\* lemma of the call, that of the lemmas row with the lemma's text.
LemmaIdsOf(call) ==
    {r.lemma_id : r \in {q \in lemmas : q.lemma \in DOMAIN Val(call.nlp.lemmas_count_map)}}

\* C12: however add_document calls that carry the same lemma interleave, none
\* fails for another reason than the busy write lock, there is at most one
\* lemmas row per text, the stat rows of every ingested document carry the
\* lemma_id of that row, and a lemmas row, once there, stays as it is.
C12_LemmaUnique ==
    /\ [](/\ \A r, q \in lemmas : r.lemma = q.lemma => r = q
          /\ \A p \in Procs : tx[p].pc = "done" =>
                IF tx[p].status = "ok"
                THEN StatLemmaIds(tx[p].doc_id) = LemmaIdsOf(Val(tx[p].call))
                ELSE tx[p].err = "OperationalError")
    /\ [][lemmas \subseteq lemmas']_vars

\* Two calls that share the new lemma "a" ran at the same time: the second
\* waited for the write lock, found the row of the first and both succeeded.
C12_Witness ==
    /\ \A p \in Procs : tx[p].pc = "done" /\ tx[p].status = "ok"
                          /\ "a" \in DOMAIN Val(Val(tx[p].call).nlp.lemmas_count_map)
    /\ \E p \in Procs : tx[p].waited
    /\ tx["w1"].doc_id # tx["w2"].doc_id
    /\ Cardinality({r \in documents_lemmas : r.lemma_id = WordId("a")}) = 2

\* C13: the values a finished lemma_tfidf_map or document_lemmas_info combined
\* (document count, tf, count, document frequencies, lemma rows) all agree
\* with one store that was the committed one at some time during the call.
C13_ReadsOneSnapshot ==
    reader.pc = "done" => reader.snapshots # {}

\* C14: no two stored documents have the same fingerprint, however the upload
\* loops of the sessions interleave.
C14_NoDuplicateFingerprints ==
    \A d, e \in documents : d.xxhash64 = e.xxhash64 => d = e

====
